---- MODULE Spec2Model ----
(***************************************************************************)
(* The ConvertKit client of src/convertkit/main.py as a state machine: the *)
(* client configuration, the HTTP exchanges of one operation, the stack of *)
(* nested GET calls that paginate, and the operation's outcome.            *)
(***************************************************************************)
EXTENDS Integers, Sequences, FiniteSets, TLC

VARIABLES
    api_secret,   \* ConvertKit.api_secret, set by the constructor
    server,       \* what the remote API answers: pages, items per page, fault
    call,         \* the facade operation in progress (op = "idle": none)
    stack,        \* frames of the nested ConvertKit.GET calls, outermost first
    wire,         \* the HTTP exchanges of the operation, in order
    factoryLog,   \* the factory invocations of the operation, in order
    outcome       \* what the operation returned or raised

vars == <<api_secret, server, call, stack, wire, factoryLog, outcome>>

----------------------------------------------------------------------------
(* Bounds of the model. *)

MaxPages == 3
MaxK == 2
\* deepest nesting of GET the model follows (the code has no bound of its own)
MaxDepth == MaxPages + 1

----------------------------------------------------------------------------
(* Python values. *)

None == [t |-> "none", v |-> <<>>]
List(s) == [t |-> "list", v |-> s]
Dict(d) == [t |-> "dict", v |-> d]
Obj(e) == [t |-> "entity", v |-> e]

\* the key None and the key that is the lambda handed to GET by account()
NoField == "<None>"
LambdaField == "<lambda>"

NoSecret == "<None>"
Secrets == {NoSecret, "", "sk_1"}
\* `not self.api_secret`
Falsy(s) == s \in {NoSecret, ""}

Ok(v) == [kind |-> "ok", exc |-> "", msg |-> "", content |-> <<>>, value |-> v]
Raise(exc, msg, content) ==
    [kind |-> "error", exc |-> exc, msg |-> msg, content |-> content, value |-> None]
Pending == [kind |-> "none", exc |-> "", msg |-> "", content |-> <<>>, value |-> None]

\* dict.get(key, default)
Get(d, key, default) == IF key \in DOMAIN d THEN d[key] ELSE default
\* d[key] = value
Put(d, key, value) == [x \in (DOMAIN d) \cup {key} |-> IF x = key THEN value ELSE d[x]]

RECURSIVE SeqSum(_)
SeqSum(s) == IF s = <<>> THEN <<>> ELSE Head(s) \o SeqSum(Tail(s))

----------------------------------------------------------------------------
(* The remote API, as the code reads it through requester.get / .post.     *)

\* resp.status_code >= 300 is an error
StatusLimit == 300
FaultStatuses == {StatusLimit, 500}

NoFault == [kind |-> "none", page |-> 0, status |-> 200, json |-> TRUE]
Faults ==
    {NoFault}
    \cup {[kind |-> "status", page |-> p, status |-> s, json |-> j] :
             p \in 1..MaxPages, s \in FaultStatuses, j \in BOOLEAN}
    \cup {[kind |-> "missing", page |-> p, status |-> 200, json |-> TRUE] :
             p \in 1..MaxPages}

Servers ==
    {[total_pages |-> n, k |-> k, fault |-> f] :
        n \in 0..MaxPages, k \in 0..MaxK, f \in Faults}

Endpoint(base, id, tail) == [base |-> base, id |-> id, tail |-> tail]

\* the resource-named array field of a response envelope
ResourceField(endpoint) ==
    IF endpoint.tail = "/subscriptions" THEN "subscriptions"
    ELSE IF endpoint.base = "/forms" THEN "forms"
    ELSE IF endpoint.base = "/tags" THEN "tags"
    ELSE "courses"

\* ids are unique, names are not: items 1, 3 and 5 share the name "a"
NameOf(j) == IF j = 3 THEN "a" ELSE <<"a", "b", "c", "d">>[((j - 1) % 4) + 1]
RawItem(j) == [id |-> j, name |-> NameOf(j)]
RawSubscription(j) == [id |-> j, subscriber |-> RawItem(j)]

PageItems(srv, endpoint, p) ==
    IF p \in 1..srv.total_pages
    THEN [i \in 1..srv.k |->
            IF endpoint.tail = "/subscriptions"
            THEN RawSubscription((p - 1) * srv.k + i)
            ELSE RawItem((p - 1) * srv.k + i)]
    ELSE <<>>

AccountBody == [name |-> "acme", primary_email_address |-> "a@example.org"]

GetBody(srv, endpoint, p) ==
    IF endpoint.base = "/account" THEN AccountBody
    ELSE LET envelope == ("page" :> p) @@ ("total_pages" :> srv.total_pages)
         IN IF srv.fault.kind = "missing" /\ srv.fault.page = p
            THEN envelope
            ELSE envelope @@ (ResourceField(endpoint) :> List(PageItems(srv, endpoint, p)))

PostBody(endpoint, params) ==
    IF endpoint.tail = "/subscribe"
    THEN [subscription |-> [id |-> 1, subscriber |-> [id |-> 2, email_address |-> params["email"]]]]
    ELSE [id |-> 1, name |-> params["name"]]

\* resp.content: the raw bytes of the body
RawBody(method, endpoint, p, status, json) ==
    <<method, endpoint.base, endpoint.tail, p, status, json>>

Serve(srv, method, endpoint, params) ==
    LET p == IF method = "GET" THEN params["page"] ELSE 1
        hit == srv.fault.kind = "status" /\ srv.fault.page = p
        status == IF hit THEN srv.fault.status ELSE 200
        json == IF hit THEN srv.fault.json ELSE TRUE
    IN [status |-> status, json |-> json,
        content |-> RawBody(method, endpoint, p, status, json),
        body |-> IF hit THEN [error |-> "failed"]
                 ELSE IF method = "GET" THEN GetBody(srv, endpoint, p)
                 ELSE PostBody(endpoint, params)]

Exchange(method, endpoint, params, resp) ==
    [method |-> method, endpoint |-> endpoint, params |-> params,
     status |-> resp.status, json |-> resp.json, content |-> resp.content]

----------------------------------------------------------------------------
(* The object model. *)

PyInt(n) == [t |-> "int", v |-> n]
PyStr(s) == [t |-> "str", v |-> s]
\* a JSON scalar compared with an argument that is None, an int or a str
PyEq(raw, arg, type) == arg.t = type /\ arg.v = raw

MixinClasses == {"Form", "Tag", "Course"}
InstanceAttrs == {"log", "api", "obj"}
ClassAttrs(cls) ==
    {"decode"} \cup
    (IF cls \in MixinClasses
     THEN {"MODEL_ENDPOINT", "list_subscriptions", "add_subscriber"}
     ELSE {})
MODEL_ENDPOINT(cls) ==
    IF cls = "Form" THEN "/forms" ELSE IF cls = "Tag" THEN "/tags" ELSE "/courses"

\* Subscription.decode wraps the nested subscriber; every other class keeps the blob
decode(cls, blob) ==
    IF cls = "Subscription"
    THEN [blob EXCEPT !["subscriber"] =
            [cls |-> "Subscriber", obj |-> blob["subscriber"], api |-> "client"]]
    ELSE blob

APIModel(cls, json_blob) == [cls |-> cls, obj |-> decode(cls, json_blob), api |-> "client"]

\* attribute access on an entity: the instance's own attributes, then the
\* class's, and only then __getattr__, which indexes the stored mapping
GetAttr(e, attr) ==
    IF attr \in InstanceAttrs THEN Ok([t |-> "instance", v |-> attr])
    ELSE IF attr \in ClassAttrs(e.cls) THEN Ok([t |-> "class", v |-> attr])
    ELSE IF attr = "total_subscriptions" /\ e.cls \in MixinClasses
         THEN (IF attr \in DOMAIN e.obj THEN Ok([t |-> "json", v |-> e.obj[attr]]) ELSE Ok(None))
    ELSE IF attr \in DOMAIN e.obj THEN Ok([t |-> "json", v |-> e.obj[attr]])
    ELSE Raise("KeyError", attr, <<>>)

----------------------------------------------------------------------------
(* The factories the facade hands to GET and POST. *)

ListClass(factory) ==
    IF factory = "forms" THEN "Form"
    ELSE IF factory = "tags" THEN "Tag"
    ELSE IF factory = "courses" THEN "Course"
    ELSE "Subscription"

\* factory(response); the list factories are [Cls(x, api) for x in response[key]]
ApplyFactory(factory, response) ==
    IF factory \in {"forms", "tags", "courses", "subscriptions"}
    THEN IF factory \notin DOMAIN response THEN Raise("KeyError", factory, <<>>)
         ELSE IF response[factory].t # "list"
              THEN Raise("TypeError", "'NoneType' object is not iterable", <<>>)
              ELSE Ok(List([i \in 1..Len(response[factory].v) |->
                              APIModel(ListClass(factory), response[factory].v[i])]))
    ELSE IF factory = "course" THEN Ok(Obj(APIModel("Course", response)))
    ELSE IF factory = "tag" THEN Ok(Obj(APIModel("Tag", response)))
    ELSE IF "subscription" \in DOMAIN response
         THEN Ok(Obj(APIModel("Subscription", response["subscription"])))
         ELSE Raise("KeyError", "subscription", <<>>)

----------------------------------------------------------------------------
(* ConvertKit.GET, one frame per nested call. *)

IdleCall ==
    [op |-> "idle", endpoint |-> Endpoint("", 0, ""), field |-> NoField,
     factory |-> "none", lazy |-> FALSE, page |-> 1, secret |-> FALSE,
     id |-> None, name |-> None, entity |-> <<>>, attr |-> ""]

Frame(page, lazy) ==
    [page |-> page, lazy |-> lazy, pc |-> "send", objects |-> None, response |-> <<>>]

\* params["api_key"], params["page"], params.update(kwargs)
GetParams(c, page, secret) ==
    IF c.secret
    THEN ("api_key" :> "key") @@ ("page" :> page) @@ ("api_secret" :> secret)
    ELSE ("api_key" :> "key") @@ ("page" :> page)

\* objects = response.get(field) if field else []
Extract(field, response) ==
    IF field = NoField THEN List(<<>>) ELSE Get(response, field, None)

\* a paginator that forgets the lazy flag
MorePagesIgnoringLazy(lazy, response) ==
    Get(response, "page", 1) # Get(response, "total_pages", 1)

\* not lazy and response.get("page", 1) != response.get("total_pages", 1)
MorePages(lazy, response) ==
    ~lazy /\ Get(response, "page", 1) # Get(response, "total_pages", 1)

\* a paginator that converts in every frame
DefersFactoryNever(page) == FALSE

\* if page != 1: return objects
DefersFactory(page) == page # 1

\* objects + self.GET(...)
Add(objects, rest) ==
    IF objects.t = "list" /\ rest.t = "list" THEN Ok(List(objects.v \o rest.v))
    ELSE Raise("TypeError", "unsupported operand type(s) for +", <<>>)

\* what a frame returns once its pages are in: lines 141-148
FrameResult(c, f) ==
    IF DefersFactory(f.page) THEN Ok(f.objects)
    ELSE IF c.factory # "none" THEN ApplyFactory(c.factory, Put(f.response, c.field, f.objects))
    ELSE Ok(Dict(Put(f.response, c.field, f.objects)))

RunsFactory(c, f) == ~DefersFactory(f.page) /\ c.factory # "none"

----------------------------------------------------------------------------
(* Facade lookups over the listed entities. *)

\* f.id == form_id, f.name == form_name (attribute access on the entity)
IdIs(e, id) == PyEq(GetAttr(e, "id").value.v, id, "int")
NameIs(e, name) == PyEq(GetAttr(e, "name").value.v, name, "str")

\* find_form with the policy of find_tag
FormMatchesEither(f, form_id, form_name) ==
    \/ (form_id.t # "none" /\ IdIs(f, form_id))
    \/ (form_name.t # "none" /\ NameIs(f, form_name))

\* the two list comprehensions of find_form, each applied when its argument is given
FormMatches(f, form_id, form_name) ==
    /\ (form_id.t # "none" => IdIs(f, form_id))
    /\ (form_name.t # "none" => NameIs(f, form_name))

FindFormResult(forms, form_id, form_name) ==
    LET kept == SelectSeq(forms, LAMBDA f : FormMatches(f, form_id, form_name))
    IN IF Len(kept) = 0 THEN Raise("RuntimeError", "Did not find a form", <<>>)
       ELSE IF Len(kept) > 1 THEN Raise("RuntimeError", "More than one form matched", <<>>)
       ELSE Ok(Obj(kept[Len(kept)]))

\* find_tag with the policy of find_form
TagMatchesBoth(tag, id, name) == IdIs(tag, id) /\ NameIs(tag, name)

\* if tag.id == id or tag.name == name
TagMatches(tag, id, name) == IdIs(tag, id) \/ NameIs(tag, name)

FindTagResult(tags_, id, name) ==
    LET hits == {i \in 1..Len(tags_) : TagMatches(tags_[i], id, name)}
    IN IF hits = {} THEN Ok(None)
       ELSE Ok(Obj(tags_[CHOOSE i \in hits : \A j \in hits : i <= j]))

\* what the facade method does with what GET returned
Continue(c, r) ==
    IF r.kind = "error" THEN r
    ELSE IF c.op = "find_form" THEN FindFormResult(r.value.v, c.id, c.name)
    ELSE IF c.op = "find_tag" THEN FindTagResult(r.value.v, c.id, c.name)
    ELSE r

----------------------------------------------------------------------------
(* Inputs. *)

IdArgs == {None, PyInt(1), PyInt(3), PyInt(99)}
NameArgs == {None, PyStr("a"), PyStr("b"), PyStr("missing")}
AttrKeys == {"id", "api"}
AttrNames == AttrKeys \cup {"name"}
AttrValues == {1, 2}
Mappings == UNION {[ks -> AttrValues] : ks \in SUBSET AttrKeys}

----------------------------------------------------------------------------
(* Steps. *)

Idle == call.op = "idle" /\ outcome.kind = "none"

Start(c) ==
    /\ call' = c
    /\ stack' = <<Frame(c.page, c.lazy)>>
    /\ wire' = <<>>
    /\ factoryLog' = <<>>
    /\ outcome' = Pending
    /\ UNCHANGED <<api_secret, server>>

Finish(c, w, log, r) ==
    /\ call' = c
    /\ stack' = <<>>
    /\ wire' = w
    /\ factoryLog' = log
    /\ outcome' = r
    /\ UNCHANGED <<api_secret, server>>

\* the body of ConvertKit.GET up to the recursive call, for the innermost frame
GET_request ==
    /\ stack # <<>>
    /\ stack[Len(stack)].pc = "send"
    /\ LET n == Len(stack)
           f == stack[n]
           params == GetParams(call, f.page, api_secret)
           resp == Serve(server, "GET", call.endpoint, params)
           objects == Extract(call.field, resp.body)
       IN /\ wire' = Append(wire, Exchange("GET", call.endpoint, params, resp))
          /\ IF ~resp.json
             THEN /\ stack' = <<>>
                  /\ outcome' = Raise("ValueError", "JSONDecodeError", <<>>)
             ELSE IF resp.status >= StatusLimit
             THEN /\ stack' = <<>>
                  /\ outcome' = Raise("APIError", "", resp.content)
             ELSE IF MorePages(f.lazy, resp.body)
             THEN /\ n < MaxDepth
                  /\ stack' = Append(
                        [stack EXCEPT ![n] = [f EXCEPT !.pc = "wait", !.objects = objects,
                                                       !.response = resp.body]],
                        Frame(f.page + 1, FALSE))
                  /\ outcome' = outcome
             ELSE /\ stack' = [stack EXCEPT ![n] = [f EXCEPT !.pc = "ret", !.objects = objects,
                                                            !.response = resp.body]]
                  /\ outcome' = outcome
    /\ UNCHANGED <<api_secret, server, call, factoryLog>>

\* the innermost frame returns: to the frame that called it, or to the facade
GET_return ==
    /\ stack # <<>>
    /\ stack[Len(stack)].pc = "ret"
    /\ LET n == Len(stack)
           f == stack[n]
           r == FrameResult(call, f)
       IN /\ factoryLog' =
                IF RunsFactory(call, f)
                THEN Append(factoryLog, [depth |-> n, page |-> f.page, nreq |-> Len(wire),
                                         input |-> f.objects])
                ELSE factoryLog
          /\ IF n = 1
             THEN /\ stack' = <<>>
                  /\ outcome' = Continue(call, r)
             ELSE LET caller == stack[n - 1]
                      sum == IF r.kind = "error" THEN r ELSE Add(caller.objects, r.value)
                  IN IF sum.kind = "error"
                     THEN /\ stack' = <<>>
                          /\ outcome' = sum
                     ELSE /\ stack' = [SubSeq(stack, 1, n - 1) EXCEPT
                                         ![n - 1] = [caller EXCEPT !.pc = "ret",
                                                                   !.objects = sum.value]]
                          /\ outcome' = outcome
    /\ UNCHANGED <<api_secret, server, call, wire>>

\* ConvertKit.POST: one exchange, then the factory
POST(c, params) ==
    LET resp == Serve(server, "POST", c.endpoint, params)
        w == <<Exchange("POST", c.endpoint, params, resp)>>
    IN IF resp.status >= StatusLimit
       THEN Finish(c, w, <<>>, Raise("APIError", "", resp.content))
       ELSE IF ~resp.json
       THEN Finish(c, w, <<>>, Raise("ValueError", "JSONDecodeError", <<>>))
       ELSE IF c.factory # "none"
       THEN Finish(c, w, <<[depth |-> 0, page |-> 1, nreq |-> 1, input |-> None]>>,
                   ApplyFactory(c.factory, resp.body))
       ELSE Finish(c, w, <<>>, Ok(Dict(resp.body)))

----------------------------------------------------------------------------
(* The operations a caller invokes. *)

\* a check that takes the empty secret for a secret
NeedsSecretOnlyNone(secret) == secret = NoSecret

\* `if not self.api_secret: raise APIError(...)`
NeedsSecret(secret) == Falsy(secret)

SecretError == Raise("APIError", "needs API secret", <<>>)

\* ConvertKit.GET called directly: a field, with or without a factory
GET ==
    /\ Idle
    /\ \E factory \in {"none", "forms"}, lazy \in BOOLEAN, page \in {1, 2} :
         Start([IdleCall EXCEPT !.op = "GET", !.endpoint = Endpoint("/forms", 0, ""),
                                !.field = "forms", !.factory = factory,
                                !.lazy = lazy, !.page = page])

list_forms ==
    /\ Idle
    /\ Start([IdleCall EXCEPT !.op = "list_forms", !.endpoint = Endpoint("/forms", 0, ""),
                              !.field = "forms", !.factory = "forms"])

find_form ==
    /\ Idle
    /\ \E form_id \in IdArgs, form_name \in NameArgs :
         Start([IdleCall EXCEPT !.op = "find_form", !.endpoint = Endpoint("/forms", 0, ""),
                                !.field = "forms", !.factory = "forms",
                                !.id = form_id, !.name = form_name])

\* self.GET("/account", lambda x: Account(**x), api_secret=...): the lambda is
\* the second positional argument, which is `field`
account ==
    /\ Idle
    /\ LET c == [IdleCall EXCEPT !.op = "account", !.endpoint = Endpoint("/account", 0, ""),
                                 !.field = LambdaField, !.factory = "none", !.secret = TRUE]
       IN IF NeedsSecret(api_secret) THEN Finish(c, <<>>, <<>>, SecretError) ELSE Start(c)

sequences ==
    /\ Idle
    /\ Start([IdleCall EXCEPT !.op = "sequences", !.endpoint = Endpoint("/courses", 0, ""),
                              !.field = "courses", !.factory = "courses"])

\* `raise NotImplemented(...)`: NotImplemented is not callable
find_sequence ==
    /\ Idle
    /\ \E name \in {None, PyStr("a")}, lazy \in BOOLEAN :
         LET c == [IdleCall EXCEPT !.op = "find_sequence",
                                   !.endpoint = Endpoint("/sequences", 1, "/subscriptions"),
                                   !.field = NoField, !.factory = "course", !.secret = TRUE,
                                   !.id = PyInt(1), !.name = name, !.lazy = lazy]
         IN IF NeedsSecret(api_secret) THEN Finish(c, <<>>, <<>>, SecretError)
            ELSE IF name.t # "none"
            THEN Finish(c, <<>>, <<>>,
                        Raise("TypeError", "'NotImplementedType' object is not callable", <<>>))
            ELSE Start(c)

tags ==
    /\ Idle
    /\ Start([IdleCall EXCEPT !.op = "tags", !.endpoint = Endpoint("/tags", 0, ""),
                              !.field = "tags", !.factory = "tags"])

find_tag ==
    /\ Idle
    /\ \E id \in IdArgs, name \in NameArgs :
         Start([IdleCall EXCEPT !.op = "find_tag", !.endpoint = Endpoint("/tags", 0, ""),
                                !.field = "tags", !.factory = "tags",
                                !.id = id, !.name = name])

create_tag ==
    /\ Idle
    /\ LET c == [IdleCall EXCEPT !.op = "create_tag", !.endpoint = Endpoint("/tags", 0, ""),
                                 !.factory = "tag"]
       IN POST(c, [api_key |-> "key", name |-> "t", description |-> "d"])

\* SubscriptionMixin.list_subscriptions on a Form, Tag or Course
list_subscriptions ==
    /\ Idle
    /\ \E cls \in MixinClasses :
         LET self == APIModel(cls, RawItem(1))
             c == [IdleCall EXCEPT !.op = "list_subscriptions",
                     !.endpoint = Endpoint(MODEL_ENDPOINT(cls), GetAttr(self, "id").value.v,
                                           "/subscriptions"),
                     !.field = "subscriptions", !.factory = "subscriptions",
                     !.secret = TRUE, !.entity = self]
         IN IF NeedsSecret(api_secret) THEN Finish(c, <<>>, <<>>, SecretError) ELSE Start(c)

\* SubscriptionMixin.add_subscriber
add_subscriber ==
    /\ Idle
    /\ \E cls \in MixinClasses, first_name \in {None, PyStr("a")} :
         LET self == APIModel(cls, RawItem(1))
             c == [IdleCall EXCEPT !.op = "add_subscriber",
                     !.endpoint = Endpoint(MODEL_ENDPOINT(cls), GetAttr(self, "id").value.v,
                                           "/subscribe"),
                     !.factory = "subscription", !.name = first_name, !.entity = self]
         IN POST(c, IF first_name.t = "none"
                    THEN [api_key |-> "key", email |-> "e@example.org"]
                    ELSE [api_key |-> "key", email |-> "e@example.org",
                          first_name |-> first_name.v])

\* attribute access on an entity built from a mapping
Getattr ==
    /\ Idle
    /\ \E cls \in {"Account", "Form"}, m \in Mappings, attr \in AttrNames :
         LET self == APIModel(cls, m)
             c == [IdleCall EXCEPT !.op = "getattr", !.entity = self, !.attr = attr]
         IN Finish(c, <<>>, <<>>, GetAttr(self, attr))

\* the caller has the result; the client holds nothing of the call
Return ==
    /\ outcome.kind # "none"
    /\ call' = IdleCall
    /\ stack' = <<>>
    /\ wire' = <<>>
    /\ factoryLog' = <<>>
    /\ outcome' = Pending
    /\ UNCHANGED <<api_secret, server>>

Init ==
    /\ api_secret \in Secrets
    /\ server \in Servers
    /\ call = IdleCall
    /\ stack = <<>>
    /\ wire = <<>>
    /\ factoryLog = <<>>
    /\ outcome = Pending

Next ==
    \/ GET
    \/ list_forms
    \/ find_form
    \/ account
    \/ sequences
    \/ find_sequence
    \/ tags
    \/ find_tag
    \/ create_tag
    \/ list_subscriptions
    \/ add_subscriber
    \/ Getattr
    \/ GET_request
    \/ GET_return
    \/ Return

Spec == Init /\ [][Next]_vars

----------------------------------------------------------------------------
(* Properties. *)

Done == outcome.kind # "none"

\* the operations that list a resource through GET with its field, from page 1
Listing == call.op \in {"GET", "list_forms", "tags", "sequences"} /\ call.page = 1

\* no response of the run is a failure or lacks its field
FaultFree ==
    server.fault.kind = "none" \/ server.fault.page > server.total_pages

\* items j = 1, 2, ... in the order the server pages them
ExpectedItems(pages) == [j \in 1..(pages * server.k) |-> RawItem(j)]

\* the raw items in what a listing returned: the field of the response, or
\* the mappings the entities wrap
ResultItems ==
    IF outcome.value.t = "dict" THEN outcome.value.v[call.field].v
    ELSE [i \in 1..Len(outcome.value.v) |-> outcome.value.v[i].obj]

PagesWanted == IF call.lazy THEN 1 ELSE server.total_pages

\* C1: against a server of N >= 1 pages of k items each, a GET with the field
\* returns the items of pages 1..M in page-then-intra-page order, M = N when
\* not lazy (N*k items) and M = 1 when lazy, having asked for M pages.
C1_PagesConcatenated ==
    (Listing /\ FaultFree /\ server.total_pages >= 1 /\ Done) =>
        /\ outcome.kind = "ok"
        /\ ResultItems = ExpectedItems(PagesWanted)
        /\ Len(ResultItems) = PagesWanted * server.k
        /\ Len(wire) = PagesWanted

C1_Witness ==
    /\ call.op = "GET" /\ call.page = 1 /\ ~call.lazy /\ FaultFree
    /\ server.total_pages = MaxPages /\ server.k = MaxK
    /\ outcome.kind = "ok"
    /\ Len(ResultItems) = MaxPages * MaxK

SecretGated == call.op \in {"list_subscriptions", "account", "find_sequence"}

\* C2: a secret-gated operation on a client without a secret fails with the
\* missing-secret error and sends no request.
C2_NoSecretNoRequest ==
    (SecretGated /\ api_secret \in {NoSecret, ""}) =>
        /\ outcome.kind = "error"
        /\ outcome.exc = "APIError"
        /\ outcome.msg = "needs API secret"
        /\ wire = <<>>
        /\ stack = <<>>

C2_Witness ==
    /\ call.op = "list_subscriptions"
    /\ api_secret = ""
    /\ outcome.kind = "error"
    /\ wire = <<>>

\* C3: a response with status >= 300, to a GET or a POST and whatever its body,
\* fails the call with an APIError carrying the raw body; it is the last
\* request of the call and no result is returned.
C3_StatusFailsWithAPIError ==
    \A i \in 1..Len(wire) :
        wire[i].status >= 300 =>
            /\ outcome.kind = "error"
            /\ outcome.exc = "APIError"
            /\ outcome.content = wire[i].content
            /\ i = Len(wire)

\* the forms that meet every criterion given, by position in the listing
FormHits ==
    {j \in 1..(server.total_pages * server.k) :
        /\ (call.id.t = "int" => call.id.v = j)
        /\ (call.name.t = "str" => call.name.v = NameOf(j))}

\* C4: find_form keeps the forms matching every given criterion; none is
\* the not-found error, one is that form, more than one the ambiguity error.
C4_FindForm ==
    (call.op = "find_form" /\ FaultFree /\ server.total_pages >= 1 /\ Done) =>
        /\ Cardinality(FormHits) = 0 =>
              outcome.kind = "error" /\ outcome.exc = "RuntimeError"
              /\ outcome.msg = "Did not find a form"
        /\ Cardinality(FormHits) = 1 =>
              outcome.kind = "ok" /\ outcome.value.t = "entity"
              /\ outcome.value.v.cls = "Form"
              /\ \A j \in FormHits : outcome.value.v.obj = RawItem(j)
        /\ Cardinality(FormHits) > 1 =>
              outcome.kind = "error" /\ outcome.exc = "RuntimeError"
              /\ outcome.msg = "More than one form matched"

C4_Witness ==
    /\ call.op = "find_form" /\ FaultFree
    /\ call.id.t = "none" /\ call.name = PyStr("a")
    /\ Cardinality(FormHits) = 2
    /\ outcome.kind = "error"
    /\ outcome.msg = "More than one form matched"

\* the tags whose id or name is the one given, by position in the listing
TagHits ==
    {j \in 1..(server.total_pages * server.k) :
        \/ (call.id.t = "int" /\ call.id.v = j)
        \/ (call.name.t = "str" /\ call.name.v = NameOf(j))}

\* C5: find_tag returns the first listed tag whose id or whose name is the
\* one given, and None when there is none; of the tags (1, a), (2, b):
\* name b gives tag 2, id 1 gives tag 1, id 99 with name missing gives None.
C5_FindTag ==
    (call.op = "find_tag" /\ FaultFree /\ server.total_pages >= 1 /\ Done) =>
        /\ outcome.kind = "ok"
        /\ TagHits = {} => outcome.value.t = "none"
        /\ TagHits # {} =>
              /\ outcome.value.t = "entity"
              /\ outcome.value.v.cls = "Tag"
              /\ \E j \in TagHits :
                    /\ \A h \in TagHits : j <= h
                    /\ outcome.value.v.obj = RawItem(j)
        /\ (server.total_pages = 1 /\ server.k = 2) =>
              /\ (call.id.t = "none" /\ call.name = PyStr("b")) =>
                    outcome.value.t = "entity" /\ outcome.value.v.obj.id = 2
              /\ (call.id = PyInt(1) /\ call.name.t = "none") =>
                    outcome.value.t = "entity" /\ outcome.value.v.obj.id = 1
              /\ (call.id = PyInt(99) /\ call.name = PyStr("missing")) =>
                    outcome.value.t = "none"

C5_Witness ==
    /\ call.op = "find_tag" /\ FaultFree
    /\ call.id = PyInt(3) /\ call.name = PyStr("a")
    /\ 3 \in TagHits
    /\ outcome.kind = "ok"
    /\ outcome.value.t = "entity"
    /\ outcome.value.v.obj.id = 1

\* C6: attribute access k on the entity built from m returns m[k] for every
\* key k of m, and fails with a lookup error for a key m does not have.
C6_AttributeIsMappingValue ==
    call.op = "getattr" =>
        /\ call.attr \in DOMAIN call.entity.obj =>
              /\ outcome.kind = "ok"
              /\ outcome.value.t = "json"
              /\ outcome.value.v = call.entity.obj[call.attr]
        /\ call.attr \notin DOMAIN call.entity.obj =>
              /\ outcome.kind = "error"
              /\ outcome.exc = "KeyError"

\* C7: a GET that is not lazy and whose first response reports total_pages 0
\* or 1 issues the request for page 1 and no other, and returns that page's items.
C7_OnePageTerminates ==
    (Listing /\ ~call.lazy /\ server.fault.kind = "none"
        /\ server.total_pages \in {0, 1} /\ wire # <<>>) =>
        /\ Len(wire) = 1
        /\ Done => (outcome.kind = "ok" /\ ResultItems = ExpectedItems(server.total_pages))

\* the items of the pages asked for, the page that lacks the field left out
ItemsButMissing ==
    SeqSum([p \in 1..PagesWanted |->
              IF p = server.fault.page THEN <<>>
              ELSE [i \in 1..server.k |-> RawItem((p - 1) * server.k + i)]])

\* C8: a response without the requested field counts as an empty page: the
\* call returns the other pages' items.
C8_MissingFieldIsEmptyPage ==
    (Listing /\ server.fault.kind = "missing" /\ server.fault.page <= PagesWanted
        /\ server.total_pages >= 1 /\ Done) =>
        /\ outcome.kind = "ok"
        /\ outcome.value.t = "dict" => outcome.value.v[call.field].t = "list"
        /\ ResultItems = ItemsButMissing

\* C9: account(), with a secret and a successful response, returns an Account
\* entity, after one GET to /account carrying api_key and api_secret.
C9_AccountIsEntity ==
    (call.op = "account" /\ api_secret \notin {NoSecret, ""} /\ Done
        /\ \A i \in 1..Len(wire) : wire[i].status < 300) =>
        /\ Len(wire) = 1
        /\ wire[1].method = "GET"
        /\ wire[1].endpoint.base = "/account"
        /\ {"api_key", "api_secret"} \subseteq DOMAIN wire[1].params
        /\ outcome.kind = "ok"
        /\ outcome.value.t = "entity"
        /\ outcome.value.v.cls = "Account"

UsesGET == call.op \notin {"idle", "getattr", "create_tag", "add_subscriber"}

\* C10: in a GET the factory runs in the outermost call alone, after the last
\* response, at most once, over the concatenated items; nested calls hand
\* back raw items; a GET from page 1 that succeeds with a factory ran it once.
C10_FactoryDeferred ==
    UsesGET =>
        /\ Len(factoryLog) <= 1
        /\ Len(stack) > 1 => factoryLog = <<>>
        /\ \A i \in 1..Len(factoryLog) :
              /\ factoryLog[i].depth = 1
              /\ factoryLog[i].page = 1
              /\ factoryLog[i].nreq = Len(wire)
              /\ stack = <<>>
              /\ (Listing /\ FaultFree /\ server.total_pages >= 1) =>
                    factoryLog[i].input = List(ExpectedItems(PagesWanted))
        /\ \A i \in 1..Len(stack) :
              (i > 1 /\ stack[i].pc = "ret") => stack[i].objects.t \in {"list", "none"}
        /\ (Done /\ outcome.kind = "ok" /\ call.factory # "none" /\ call.page = 1) =>
              Len(factoryLog) = 1

C10_Witness ==
    /\ call.op = "list_forms" /\ FaultFree
    /\ server.total_pages = MaxPages /\ server.k >= 1
    /\ outcome.kind = "ok"
    /\ Len(wire) = MaxPages
    /\ Len(factoryLog) = 1
    /\ factoryLog[1].nreq = MaxPages
    /\ Len(factoryLog[1].input.v) = MaxPages * server.k

====
